---- MODULE Spec2Model ----
(***************************************************************************)
(* A model of the logic-programming engine of paip/logic.py: the term      *)
(* model (Atom, Var, Relation, Clause), binding dictionaries, Var.lookup   *)
(* and bind_vars, unify, the clause database, and the prove / prove_all    *)
(* search with the display_bindings primitive.                             *)
(***************************************************************************)
EXTENDS Integers, Sequences, FiniteSets, TLC

VARIABLES
    \* ---- the engine (specification Spec) ----
    db,        \* the database: predicate name -> clause list or procedure
    counter,   \* Var.counter
    stack,     \* the Python call stack of prove / display_bindings frames
    ret,       \* the value a finished call hands to its caller
    pc,        \* "setup", "running" or "done"
    result,    \* what the top-level call returned
    output,    \* what display_bindings printed, one entry per report
    answers,   \* the driver's answers to 'Continue? ', in order
    error,     \* the exception that ended the run, "" when none
    trail,     \* history: one entry per clause activation and primitive call
    toplevel,  \* the call the caller made: function, goals and bindings
    \* ---- calls of the pure functions (specification SpecUnify) ----
    op,        \* the last function called
    argx,      \* its first argument
    argy,      \* its second argument
    before,    \* the caller's bindings dictionary before the call
    cur,       \* the bindings dictionary the caller holds now
    out,       \* the value the call returned
    calls,     \* how many calls of unify were made
    origin     \* the bindings dictionary the caller started with

engineVars == <<db, counter, stack, ret, pc, result, output, answers, error, trail,
               toplevel>>
callVars == <<op, argx, argy, before, cur, out, calls, origin>>
vars == <<db, counter, stack, ret, pc, result, output, answers, error, trail, toplevel,
          op, argx, argy, before, cur, out, calls, origin>>

----------------------------------------------------------------------------
\* Bounds of the model.

\* Python's recursion limit, scaled down: a call nested deeper raises.  It
\* exceeds the depth of every terminating call over the terms and
\* dictionaries below, so that only a diverging call raises.
MaxRecursion == 24
\* Calls of unify made in a row by the caller of the pure functions.
MaxCalls == 2
\* Clauses stored before the query.
MaxClauses == 3
\* Nested calls of prove and of primitives before Python's recursion limit
\* is hit.
MaxDepth == 6
\* Variables minted by the caller of recursive_rename.
MaxMinted == 8

----------------------------------------------------------------------------
\* Terms.

Atom(a) == [tag |-> "Atom", atom |-> a]
Var(v) == [tag |-> "Var", var |-> v]
Relation(p, as) == [tag |-> "Relation", pred |-> p, args |-> as]
Clause(h, b) == [tag |-> "Clause", head |-> h, body |-> b]
\* Python's None, and the exception a too deep recursion raises.
None == [tag |-> "None"]
RecursionError == [tag |-> "RecursionError"]

IsAtom(t) == t.tag = "Atom"
IsVar(t) == t.tag = "Var"
IsRelation(t) == t.tag = "Relation"
IsClause(t) == t.tag = "Clause"

\* A bindings dictionary: a function from variable names to terms.
EmptyBindings == [v \in {} |-> None]
\* A test that finds no variable bound.
InBindingsNever(x, bindings) == FALSE

\* x in bindings
InBindings(x, bindings) == IsVar(x) /\ x.var \in DOMAIN bindings
\* bindings.get(x)
Get(bindings, x) == IF InBindings(x, bindings) THEN bindings[x.var] ELSE None
\* An assignment that is dropped when y contains x.
SetItemUnlessWithin(bindings, x, y) ==
    IF IsRelation(y) /\ x \in {y.args[i] : i \in DOMAIN y.args}
    THEN bindings
    ELSE [k \in DOMAIN bindings \cup {x.var} |-> IF k = x.var THEN y ELSE bindings[k]]

\* bindings[x] = y
SetItem(bindings, x, y) ==
    [k \in DOMAIN bindings \cup {x.var} |-> IF k = x.var THEN y ELSE bindings[k]]

\* What unify, prove and prove_all return: False, or a bindings dictionary.
False == [isFalse |-> TRUE, env |-> EmptyBindings]
Bindings(b) == [isFalse |-> FALSE, env |-> b]

Range(s) == {s[i] : i \in DOMAIN s}

\* The value of toplevel before the caller calls the engine.
NotCalled == [fn |-> "none", goals |-> <<>>, bindings |-> False]

----------------------------------------------------------------------------
\* Var.lookup and Relation.bind_vars.

\* A loop that stops at the first binding.
LookupFirst(binding, encountered, bindings) == binding

RECURSIVE LookupLoop(_, _, _)
\* The while loop of Var.lookup: follow variable-to-variable bindings until
\* the next one was already encountered.
LookupLoop(binding, encountered, bindings) ==
    IF /\ IsVar(binding)
       /\ binding.var \in DOMAIN bindings
       /\ bindings[binding.var] \notin Range(encountered)
    THEN LookupLoop(bindings[binding.var],
                    Append(encountered, bindings[binding.var]), bindings)
    ELSE binding

RECURSIVE lookup(_, _, _)
RECURSIVE bind_vars(_, _, _)
RECURSIVE BindArgs(_, _, _, _, _)

\* Var.lookup(self, bindings), called at recursion depth `depth`.
lookup(self, bindings, depth) ==
    IF depth > MaxRecursion THEN RecursionError
    ELSE LET first == Get(bindings, self)
             binding == LookupLoop(first, <<self, first>>, bindings)
         IN  IF IsRelation(binding)
             THEN bind_vars(binding, bindings, depth + 1)
             ELSE binding

\* The for loop of Relation.bind_vars from argument i on; bound holds the
\* arguments done so far.  An exception leaves the loop at once.
BindArgs(self, i, bound, bindings, depth) ==
    IF i > Len(self.args) THEN Relation(self.pred, bound)
    ELSE LET arg == self.args[i]
             b == IF InBindings(arg, bindings)
                  THEN lookup(arg, bindings, depth + 1)
                  ELSE arg
         IN  IF b = RecursionError THEN RecursionError
             ELSE BindArgs(self, i + 1, Append(bound, b), bindings, depth)

\* A bind_vars that binds its own result again, without end.
bind_vars_again(self, bindings, depth) ==
    IF depth > MaxRecursion THEN RecursionError
    ELSE LET r == BindArgs(self, 1, <<>>, bindings, depth)
         IN  IF r = RecursionError THEN r ELSE bind_vars(r, bindings, depth + 1)

\* Relation.bind_vars(self, bindings)
bind_vars(self, bindings, depth) ==
    IF depth > MaxRecursion THEN RecursionError
    ELSE BindArgs(self, 1, <<>>, bindings, depth)

RECURSIVE BindBody(_, _, _, _)
\* The list comprehension of Clause.bind_vars from relation i on: the
\* relations bound, or only RecursionError when a bind_vars raised.
BindBody(body, i, done, bindings) ==
    IF i > Len(body) THEN done
    ELSE LET r == bind_vars(body[i], bindings, 1)
         IN  IF r = RecursionError THEN <<RecursionError>>
             ELSE BindBody(body, i + 1, Append(done, r), bindings)

\* Clause.bind_vars(self, bindings)
clause_bind_vars(self, bindings) ==
    LET head == bind_vars(self.head, bindings, 1)
    IN  IF head = RecursionError THEN RecursionError
        ELSE LET body == BindBody(self.body, 1, <<>>, bindings)
             IN  IF body = <<RecursionError>> THEN RecursionError
                 ELSE Clause(head, body)

----------------------------------------------------------------------------
\* get_vars, rename_vars and Clause.recursive_rename.

\* vars.extend(v for v in more if v not in vars)
RECURSIVE ExtendNew(_, _)
ExtendNew(vs, more) ==
    IF more = <<>> THEN vs
    ELSE ExtendNew(IF Head(more) \in Range(vs) THEN vs ELSE Append(vs, Head(more)),
                   Tail(more))

RECURSIVE get_vars(_)
RECURSIVE GetVarsFrom(_, _, _)
\* The for loop of Relation.get_vars and of Clause.get_vars over parts.
GetVarsFrom(parts, i, vs) ==
    IF i > Len(parts) THEN vs
    ELSE GetVarsFrom(parts, i + 1, ExtendNew(vs, get_vars(parts[i])))

\* get_vars of an Atom, a Var, a Relation or a Clause: the variables in
\* first-seen order.
get_vars(t) ==
    IF IsAtom(t) THEN <<>>
    ELSE IF IsVar(t) THEN <<t>>
    ELSE IF IsRelation(t) THEN GetVarsFrom(t.args, 1, <<>>)
    ELSE GetVarsFrom(t.body, 1, get_vars(t.head))

RECURSIVE rename_vars(_, _)
\* rename_vars of an Atom, a Var, a Relation or a Clause; replacements is a
\* dictionary from variable names to variables.
rename_vars(t, replacements) ==
    IF IsAtom(t) THEN t
    ELSE IF IsVar(t)
         THEN IF t.var \in DOMAIN replacements THEN replacements[t.var] ELSE t
    ELSE IF IsRelation(t)
         THEN Relation(t.pred,
                       [i \in 1..Len(t.args) |-> rename_vars(t.args[i], replacements)])
    ELSE Clause(rename_vars(t.head, replacements),
                [i \in 1..Len(t.body) |-> rename_vars(t.body[i], replacements)])

\* The name 'var%d' % n.
VarName(n) == "var" \o ToString(n)

\* Var.get_unused_var() when Var.counter is n (the caller adds one to it).
get_unused_var(n) == Var(VarName(n))

\* A dictionary that gives every variable of the clause the same new one.
RenamesAllToFirst(vs, n) ==
    [k \in {vs[i].var : i \in 1..Len(vs)} |-> get_unused_var(n)]

\* The dictionary built by Clause.recursive_rename when Var.counter is n:
\* the i-th variable of the clause gets the i-th variable minted.
Renames(vs, n) ==
    [k \in {vs[i].var : i \in 1..Len(vs)} |->
        get_unused_var(n + (CHOOSE i \in 1..Len(vs) : vs[i].var = k) - 1)]

\* A renaming that leaves Var.counter as it was.
recursive_rename_reusing(self, n) ==
    LET vs == get_vars(self)
    IN  [clause |-> rename_vars(self, Renames(vs, n)), counter |-> n]

\* Clause.recursive_rename(self) when Var.counter is n: the renamed clause
\* and the new value of Var.counter.
recursive_rename(self, n) ==
    LET vs == get_vars(self)
    IN  [clause |-> rename_vars(self, Renames(vs, n)), counter |-> n + Len(vs)]

----------------------------------------------------------------------------
\* unify.  Dictionaries are Python objects: heap is the sequence of the
\* dictionaries allocated so far, a reference is an index into it, and the
\* reference 0 stands for False.

\* No copy: the caller's own dictionary.
DictAlias(heap, ref) == [heap |-> heap, ref |-> ref]

\* dict(bindings): a new dictionary with the same items.
DictCopy(heap, ref) == [heap |-> Append(heap, heap[ref]), ref |-> Len(heap) + 1]

Returns(ref, heap) == [ret |-> ref, heap |-> heap, raised |-> FALSE]
Raises(heap) == [ret |-> 0, heap |-> heap, raised |-> TRUE]

\* An equality test that never finds two terms equal.
EqualNever(x, y) == FALSE

\* An equality test that finds only atoms equal.
EqualAtoms(x, y) == IsAtom(x) /\ x = y

\* x == y: __eq__ of Atom, Var, Relation and Clause compares the fields.
Equal(x, y) == x = y

\* A test that looks at the number of arguments only.
MismatchOfArity(x, y) == Len(x.args) # Len(y.args)

\* The two tests unify makes before it goes through the arguments of two
\* relations: x.pred != y.pred, len(x.args) != len(y.args).
Mismatch(x, y) == IF x.pred # y.pred THEN TRUE ELSE Len(x.args) # Len(y.args)

RECURSIVE unify(_, _, _, _, _)
RECURSIVE UnifyEach(_, _, _, _, _, _)

RECURSIVE UnifyEachUnthreaded(_, _, _, _, _, _)
\* A loop that unifies every pair under the bindings it started with,
\* dropping what the pairs before added.
UnifyEachUnthreaded(xs, ys, i, bindings, heap, depth) ==
    IF i > Len(xs) THEN Returns(bindings, heap)
    ELSE LET r == unify(xs[i], ys[i], bindings, heap, depth + 1)
         IN  IF r.raised \/ r.ret = 0 THEN r
             ELSE IF i = Len(xs) THEN r
             ELSE UnifyEachUnthreaded(xs, ys, i + 1, bindings, r.heap, depth)

RECURSIVE UnifyEachPastFailure(_, _, _, _, _, _)
\* A loop that goes on with the bindings it had when a pair does not unify.
UnifyEachPastFailure(xs, ys, i, bindings, heap, depth) ==
    IF i > Len(xs) THEN Returns(bindings, heap)
    ELSE LET r == unify(xs[i], ys[i], bindings, heap, depth + 1)
         IN  IF r.raised THEN r
             ELSE IF r.ret = 0
                  THEN UnifyEachPastFailure(xs, ys, i + 1, bindings, r.heap, depth)
             ELSE UnifyEachPastFailure(xs, ys, i + 1, r.ret, r.heap, depth)

\* The for loops of unify over the pairs xs[i], ys[i] from index i on.
UnifyEach(xs, ys, i, bindings, heap, depth) ==
    IF i > Len(xs) THEN Returns(bindings, heap)
    ELSE LET r == unify(xs[i], ys[i], bindings, heap, depth + 1)
         IN  IF r.raised \/ r.ret = 0 THEN r
             ELSE UnifyEach(xs, ys, i + 1, r.ret, r.heap, depth)

RECURSIVE unify_var_first(_, _, _, _, _)
\* A unify that binds a variable only when it is the first argument.
unify_var_first(x, y, bindings, heap, depth) ==
    IF depth > MaxRecursion THEN Raises(heap)
    ELSE IF bindings = 0 THEN Returns(0, heap)
    ELSE LET c == DictCopy(heap, bindings)
             b == c.ref
             h == c.heap
         IN  IF Equal(x, y) THEN Returns(b, h)
             ELSE IF IsVar(x)
                  THEN IF InBindings(x, h[b])
                       THEN unify(h[b][x.var], y, b, h, depth + 1)
                       ELSE IF InBindings(y, h[b])
                       THEN unify(x, h[b][y.var], b, h, depth + 1)
                       ELSE Returns(b, [h EXCEPT ![b] = SetItem(@, x, y)])
             ELSE IF IsRelation(x) /\ IsRelation(y)
                  THEN IF Mismatch(x, y) THEN Returns(0, h)
                       ELSE UnifyEach(x.args, y.args, 1, b, h, depth)
             ELSE IF IsClause(x) /\ IsClause(y)
                  THEN IF Len(x.body) # Len(y.body) THEN Returns(0, h)
                       ELSE LET r == unify(x.head, y.head, b, h, depth + 1)
                            IN  IF r.raised \/ r.ret = 0 THEN r
                                ELSE UnifyEach(x.body, y.body, 1, r.ret, r.heap, depth)
             ELSE Returns(0, h)

\* unify(x, y, bindings), called at recursion depth `depth` with the heap
\* `heap`: the reference returned (0 for False) and the heap afterwards.
unify(x, y, bindings, heap, depth) ==
    IF depth > MaxRecursion THEN Raises(heap)
    ELSE IF bindings = 0 THEN Returns(0, heap)
    ELSE LET c == DictCopy(heap, bindings)
             b == c.ref
             h == c.heap
         IN  IF Equal(x, y) THEN Returns(b, h)
             ELSE IF IsVar(x)
                  THEN IF InBindings(x, h[b])
                       THEN unify(h[b][x.var], y, b, h, depth + 1)
                       ELSE IF InBindings(y, h[b])
                       THEN unify(x, h[b][y.var], b, h, depth + 1)
                       ELSE Returns(b, [h EXCEPT ![b] = SetItem(@, x, y)])
             ELSE IF IsVar(y) THEN unify(y, x, b, h, depth + 1)
             ELSE IF IsRelation(x) /\ IsRelation(y)
                  THEN IF Mismatch(x, y) THEN Returns(0, h)
                       ELSE UnifyEach(x.args, y.args, 1, b, h, depth)
             ELSE IF IsClause(x) /\ IsClause(y)
                  THEN IF Len(x.body) # Len(y.body) THEN Returns(0, h)
                       ELSE LET r == unify(x.head, y.head, b, h, depth + 1)
                            IN  IF r.raised \/ r.ret = 0 THEN r
                                ELSE UnifyEach(x.body, y.body, 1, r.ret, r.heap, depth)
             ELSE Returns(0, h)

\* A call unify(x, y, bindings) by a caller that holds the dictionary
\* `bindings`: what the call returns (False or a dictionary), what the
\* caller's own dictionary holds afterwards, and whether the call raised.
UnifyCall(x, y, bindings) ==
    LET r == unify(x, y, 1, <<bindings>>, 1)
    IN  [unified |-> IF r.raised \/ r.ret = 0 THEN False ELSE Bindings(r.heap[r.ret]),
         bindings |-> r.heap[1],
         raised |-> r.raised]

----------------------------------------------------------------------------
\* The database: a dictionary from predicate names to entries.  An entry is
\* a list of clauses, or a Python function (named by proc).

ClauseList(cs) == [proc |-> "", clauses |-> cs]
Procedure(name) == [proc |-> name, clauses |-> <<>>]
\* Every entry taken for a list of clauses.
IsListAlways(entry) == TRUE

IsList(entry) == entry.proc = ""

\* A store that puts the clause in front of the list.
store_in_front(d, clause) ==
    LET pred == clause.head.pred
        old == IF pred \in DOMAIN d THEN d[pred].clauses ELSE <<>>
    IN  [k \in DOMAIN d \cup {pred} |->
            IF k = pred THEN ClauseList(<<clause>> \o old) ELSE d[k]]

\* store(db, clause) when the entry is a list or absent: the database after
\* db.setdefault(clause.head.pred, []).append(clause).
store(d, clause) ==
    LET pred == clause.head.pred
        old == IF pred \in DOMAIN d THEN d[pred].clauses ELSE <<>>
    IN  [k \in DOMAIN d \cup {pred} |->
            IF k = pred THEN ClauseList(Append(old, clause)) ELSE d[k]]

\* retrieve(db, pred): the database after db.setdefault(pred, []).
retrieve(d, pred) ==
    [k \in DOMAIN d \cup {pred} |-> IF k \in DOMAIN d THEN d[k] ELSE ClauseList(<<>>)]

\* A define_procedure that keeps the clauses stored under the name.
define_procedure_keeping(d, name, proc) ==
    [k \in DOMAIN d \cup {name} |->
        IF k = name
        THEN [proc |-> proc, clauses |-> IF k \in DOMAIN d THEN d[k].clauses ELSE <<>>]
        ELSE d[k]]

\* define_procedure(db, name, proc): db[name] = proc
define_procedure(d, name, proc) ==
    [k \in DOMAIN d \cup {name} |-> IF k = name THEN Procedure(proc) ELSE d[k]]

\* Only a missing entry counts, an empty list does not.
NotQueryIfAbsent(d, pred) == pred \notin DOMAIN d

\* `not query` for query = db.get(pred): no entry, or an empty list.
NotQuery(d, pred) ==
    IF pred \in DOMAIN d THEN IsList(d[pred]) /\ d[pred].clauses = <<>> ELSE TRUE

\* How many clauses the database holds.
RECURSIVE Stored(_, _)
Stored(d, preds) ==
    IF preds = {} THEN 0
    ELSE LET q == CHOOSE q \in preds : TRUE
         IN  Len(d[q].clauses) + Stored(d, preds \ {q})

----------------------------------------------------------------------------
\* The clauses and goals of the callers.

atomA == Atom("a")
atomB == Atom("b")
X == Var("x")
Y == Var("y")
Z == Var("z")
f(s) == Relation("f", <<s>>)
g(s) == Relation("g", <<s>>)
f2(s, t) == Relation("f", <<s, t>>)
joe == Atom("joe")
judy == Atom("judy")
jorge == Atom("jorge")
likes(s, t) == Relation("likes", <<s, t>>)
hates(s, t) == Relation("hates", <<s, t>>)
eq(s, t) == Relation("eq", <<s, t>>)

\* The clauses a caller stores.
Clauses ==
    {Clause(likes(joe, X), <<likes(X, joe), hates(judy, X)>>),
     Clause(likes(jorge, joe), <<>>),
     Clause(likes(jorge, judy), <<>>),
     Clause(hates(judy, jorge), <<>>),
     Clause(hates(judy, joe), <<>>),
     Clause(hates(X, Y), <<hates(Y, X)>>),
     Clause(eq(X, f(X)), <<>>)}

\* The goal lists a caller asks to prove.
Queries ==
    {<<>>,
     <<likes(joe, X)>>,
     <<likes(jorge, X)>>,
     <<likes(joe, jorge)>>,
     <<likes(jorge, joe)>>,
     <<likes(X, X)>>,
     <<hates(judy, X)>>,
     <<likes(X, joe), hates(judy, X)>>,
     <<likes(jorge, X), hates(judy, X)>>,
     <<likes(joe, X), likes(joe, Y)>>,
     <<eq(Y, Y)>>}

\* The names a caller defines procedures under, and asks retrieve for.
ProcedureNames == {"display_bindings", "hates"}
RetrievePreds == {"hates"}

\* What the driver types at 'Continue? '.
Inputs == {"yes", " Y", "no"}

\* raw_input(...).strip().lower()
StripLower(s) ==
    CASE s = " Y" -> "y"
      [] OTHER -> s

----------------------------------------------------------------------------
\* The engine: setup of the database, the calls of prove, prove_all and
\* prolog_prove, and their execution step by step on the call stack.

Init ==
    /\ db = EmptyBindings
    /\ counter = 0
    /\ stack = <<>>
    /\ ret = None
    /\ pc = "setup"
    /\ result = None
    /\ output = <<>>
    /\ answers = <<>>
    /\ error = ""
    /\ trail = <<>>
    /\ toplevel = NotCalled
    /\ op = "none"
    /\ argx = None
    /\ argy = None
    /\ origin = EmptyBindings
    /\ before = EmptyBindings
    /\ cur = EmptyBindings
    /\ out = [unified |-> False, bindings |-> EmptyBindings, term |-> None,
              raised |-> FALSE]
    /\ calls = 0

\* store(db, clause)
Store(clause) ==
    /\ pc = "setup"
    /\ Stored(db, DOMAIN db) < MaxClauses
    /\ IF clause.head.pred \in DOMAIN db /\ ~IsList(db[clause.head.pred])
       THEN \* a function has no append
            /\ error' = "AttributeError"
            /\ pc' = "done"
            /\ UNCHANGED db
       ELSE /\ db' = store(db, clause)
            /\ UNCHANGED <<error, pc>>
    /\ UNCHANGED <<counter, stack, ret, result, output, answers, trail, toplevel, callVars>>

\* retrieve(db, pred)
Retrieve(pred) ==
    /\ pc = "setup"
    /\ pred \notin DOMAIN db
    /\ db' = retrieve(db, pred)
    /\ UNCHANGED <<counter, stack, ret, pc, result, output, answers, error, trail,
                   toplevel, callVars>>

\* define_procedure(db, name, display_bindings)
DefineProcedure(name) ==
    /\ pc = "setup"
    /\ ~(name \in DOMAIN db /\ ~IsList(db[name]))
    /\ db' = define_procedure(db, name, "display_bindings")
    /\ UNCHANGED <<counter, stack, ret, pc, result, output, answers, error, trail,
                   toplevel, callVars>>

\* A frame of prove(goal, bindings, db, remaining) that has not started.
ProveFrame(goal, bindings, remaining) ==
    [fn |-> "prove", stage |-> "entry", goal |-> goal, bindings |-> bindings,
     remaining |-> remaining, query |-> <<>>, i |-> 0]

Top == stack[Len(stack)]
WithTop(fr) == [stack EXCEPT ![Len(stack)] = fr]
Pop == SubSeq(stack, 1, Len(stack) - 1)
Running == pc = "running" /\ stack # <<>>

\* prove_all(goals, bindings, db) returns at once: bindings is False or
\* there are no goals.
ProveAllReturns(goals, bindings) == IF bindings.isFalse THEN TRUE ELSE goals = <<>>
\* A prove_all that takes an empty dictionary for a failure.
ProveAllValueIfTruthy(goals, bindings) ==
    IF bindings.isFalse \/ bindings.env = EmptyBindings THEN False ELSE bindings

\* What it returns then.
ProveAllValue(goals, bindings) == IF bindings.isFalse THEN False ELSE bindings
\* The call of prove it makes otherwise.
ProveAllFrame(goals, bindings) == ProveFrame(Head(goals), bindings, Tail(goals))

\* The caller calls prove(goal, bindings, db, remaining).
CallProve(goal, bindings, remaining) ==
    /\ pc = "setup"
    /\ pc' = "running"
    /\ toplevel' = [fn |-> "prove", goals |-> <<goal>> \o remaining, bindings |-> bindings]
    /\ stack' = <<ProveFrame(goal, bindings, remaining)>>
    /\ UNCHANGED <<db, counter, ret, result, output, answers, error, trail, callVars>>

\* The caller calls prove_all(goals, bindings, db).
CallProveAll(goals, bindings) ==
    /\ pc = "setup"
    /\ pc' = "running"
    /\ toplevel' = [fn |-> "prove_all", goals |-> goals, bindings |-> bindings]
    /\ IF ProveAllReturns(goals, bindings)
       THEN ret' = ProveAllValue(goals, bindings) /\ UNCHANGED stack
       ELSE stack' = <<ProveAllFrame(goals, bindings)>> /\ UNCHANGED ret
    /\ UNCHANGED <<db, counter, result, output, answers, error, trail, callVars>>

RECURSIVE GoalVars(_, _, _)
\* The loop of prolog_prove that collects the variables of the goals.
GoalVars(goals, i, vs) ==
    IF i > Len(goals) THEN vs
    ELSE GoalVars(goals, i + 1, vs \o get_vars(goals[i]))

\* The caller calls prolog_prove(goals, db).
PrologProve(goals) ==
    /\ pc = "setup"
    /\ pc' = "running"
    /\ toplevel' = [fn |-> "prolog_prove", goals |-> goals, bindings |-> Bindings(EmptyBindings)]
    /\ IF goals # <<>>
       THEN /\ db' = define_procedure(db, "display_bindings", "display_bindings")
            /\ stack' = <<ProveAllFrame(
                   Append(goals, Relation("display_bindings", GoalVars(goals, 1, <<>>))),
                   Bindings(EmptyBindings))>>
            /\ UNCHANGED ret
       ELSE /\ ret' = False
            /\ UNCHANGED <<db, stack>>
    /\ UNCHANGED <<counter, result, output, answers, error, trail, callVars>>

\* The terms and the bindings a caller passes to unify directly.
UnifyTerms ==
    {atomA, atomB, X, Y, f(X), f(atomA), g(X),
     f2(X, Y), f2(Y, X), f2(X, atomA), f2(atomB, atomB),
     Relation("f", <<X, Y, Z>>), Relation("g", <<X, Y>>)}
UnifyBindings ==
    {False, Bindings(EmptyBindings), Bindings([x \in {"x"} |-> atomA]),
     Bindings([v \in {"x", "y"} |-> IF v = "x" THEN Y ELSE X])}

\* The caller calls unify(x, y, bindings); unify takes no database.
CallUnifyWith(x, y, bindings) ==
    /\ pc = "setup"
    /\ db = EmptyBindings
    /\ pc' = "done"
    /\ toplevel' = [fn |-> "unify", goals |-> <<x, y>>, bindings |-> bindings]
    /\ LET r == IF bindings.isFalse THEN unify(x, y, 0, <<>>, 1)
                ELSE unify(x, y, 1, <<bindings.env>>, 1)
       IN  /\ result' = IF r.raised THEN None
                        ELSE IF r.ret = 0 THEN False ELSE Bindings(r.heap[r.ret])
           /\ error' = IF r.raised THEN "RecursionError" ELSE ""
    /\ UNCHANGED <<db, counter, stack, ret, output, answers, trail, callVars>>

\* The exception unwinds the whole stack.
Raise(exception) ==
    /\ error' = exception
    /\ pc' = "done"
    /\ stack' = <<>>
    /\ ret' = None

\* The top frame calls a function: a new frame on the stack, unless the
\* recursion limit is hit.
Call(waiting, frame) ==
    IF Len(stack) >= MaxDepth
    THEN Raise("RecursionError")
    ELSE /\ stack' = Append(WithTop(waiting), frame)
         /\ UNCHANGED <<error, pc, ret>>

AtProve(stage) == Running /\ ret = None /\ Top.fn = "prove" /\ Top.stage = stage

\* prove, first line: False bindings mean an earlier failure.
ProveFailedBefore ==
    /\ AtProve("entry")
    /\ Top.bindings.isFalse
    /\ stack' = Pop
    /\ ret' = False
    /\ UNCHANGED <<db, counter, pc, result, output, answers, error, trail, toplevel, callVars>>

\* prove: db.get(goal.pred) finds nothing, or an empty list.
ProveUndefined ==
    /\ AtProve("entry")
    /\ ~Top.bindings.isFalse
    /\ NotQuery(db, Top.goal.pred)
    /\ stack' = Pop
    /\ ret' = False
    /\ UNCHANGED <<db, counter, pc, result, output, answers, error, trail, toplevel, callVars>>

\* prove: the entry is a Python function; call it with the goal's
\* arguments, the bindings and the remaining goals, and return what it
\* returns.
ProvePrimitive ==
    /\ AtProve("entry")
    /\ ~Top.bindings.isFalse
    /\ ~NotQuery(db, Top.goal.pred)
    /\ ~IsList(db[Top.goal.pred])
    /\ Call([Top EXCEPT !.stage = "tail"],
            [fn |-> db[Top.goal.pred].proc, stage |-> "entry", goal |-> Top.goal,
             bindings |-> Top.bindings, remaining |-> Top.remaining,
             query |-> <<>>, i |-> 0])
    /\ UNCHANGED <<db, counter, result, output, answers, trail, toplevel, callVars>>

\* prove: the entry is a list of clauses; start the for loop over it.
ProveClauses ==
    /\ AtProve("entry")
    /\ ~Top.bindings.isFalse
    /\ ~NotQuery(db, Top.goal.pred)
    /\ IsList(db[Top.goal.pred])
    /\ stack' = WithTop([Top EXCEPT !.stage = "loop", !.query = db[Top.goal.pred].clauses,
                                    !.i = 1])
    /\ UNCHANGED <<db, counter, ret, pc, result, output, answers, error, trail, toplevel,
                   callVars>>

\* A loop that takes the clauses from the end of the list.
CandidateFromEnd(query, i) == query[Len(query) + 1 - i]

\* `for clause in query`: the clause of the i-th iteration.
Candidate(query, i) == query[i]

\* A renaming that writes the new variables into the clause itself.
RenamedInPlace(clause, renamed) == renamed

\* The clause object after clause.recursive_rename() returned `renamed`:
\* rename_vars builds a new Clause of new Relations and leaves self alone.
AfterRename(clause, renamed) == clause

\* The database in which the clause `clause` of the list under pred holds
\* what `after` holds.
WithClause(d, pred, clause, after) ==
    [d EXCEPT ![pred] = ClauseList([j \in DOMAIN d[pred].clauses |->
                                       IF d[pred].clauses[j] = clause THEN after
                                       ELSE d[pred].clauses[j]])]

\* The head of the loop body of prove for the clause at hand: rename it,
\* unify its head with the goal, substitute the bindings into it.
Attempt(fr) ==
    LET rn == recursive_rename(Candidate(fr.query, fr.i), counter)
        u == UnifyCall(fr.goal, rn.clause.head, fr.bindings.env)
    IN  [renamed |-> rn.clause,
         clause |-> Candidate(fr.query, fr.i),
         stored |-> AfterRename(Candidate(fr.query, fr.i), rn.clause),
         counter |-> rn.counter,
         minted |-> {v.var : v \in Range(get_vars(rn.clause))},
         unified |-> u.unified,
         bindings |-> Bindings(u.bindings),
         raised |-> u.raised,
         bound |-> IF u.unified.isFalse THEN None
                   ELSE clause_bind_vars(rn.clause, u.unified.env)]

\* A test that never finds the head in the body.
HeadInBodyNever(clause) == FALSE

\* renamed.head in renamed.body
HeadInBody(clause) == clause.head \in Range(clause.body)

\* The head of the clause itself is proved again before its body.
SubgoalsWithHead(clause, remaining) == <<clause.head>> \o clause.body \o remaining

\* Only the remaining goals: the body is dropped.
SubgoalsOfRemaining(clause, remaining) == remaining

\* Only the body: the remaining goals are dropped.
SubgoalsOfBody(clause, remaining) == clause.body

\* The goals prove hands to prove_all for a clause: its body, then the
\* remaining goals.
Subgoals(clause, remaining) == clause.body \o remaining

\* A loop that moves on whatever prove_all returned.
MovesOnAlways(extended) == TRUE

\* A loop that gives up at the first clause that does not work out.
MovesOnNever(extended) == FALSE

\* `extended == False`: the clause did not work out, move on to the next.
MovesOn(extended) == extended.isFalse

Activation(fr, att, outcome) ==
    [kind |-> "clause", pred |-> fr.goal.pred, idx |-> fr.i, minted |-> att.minted,
     outcome |-> outcome, depth |-> Len(stack), given |-> fr.bindings,
     bindings |-> att.unified, input |-> "", remaining |-> fr.remaining]

InLoop == AtProve("loop") /\ Top.i <= Len(Top.query)

NextClause(fr, att) == [fr EXCEPT !.i = fr.i + 1, !.bindings = att.bindings]

\* prove, loop body: the head of the clause does not unify with the goal.
ClauseNoUnify ==
    /\ InLoop
    /\ LET att == Attempt(Top)
       IN  /\ ~att.raised
           /\ att.unified.isFalse
           /\ counter' = att.counter
           /\ db' = WithClause(db, Top.goal.pred, att.clause, att.stored)
           /\ stack' = WithTop(NextClause(Top, att))
           /\ trail' = Append(trail, Activation(Top, att, "no unify"))
    /\ UNCHANGED <<ret, pc, result, output, answers, error, toplevel, callVars>>

\* prove, loop body: unify or bind_vars exceeds the recursion limit.
ClauseRaises ==
    /\ InLoop
    /\ LET att == Attempt(Top)
       IN  /\ IF att.raised THEN TRUE ELSE att.bound = RecursionError
           /\ counter' = att.counter
           /\ db' = WithClause(db, Top.goal.pred, att.clause, att.stored)
           /\ trail' = Append(trail, Activation(Top, att, "raises"))
    /\ Raise("RecursionError")
    /\ UNCHANGED <<result, output, answers, toplevel, callVars>>

\* prove, loop body: the head of the clause is in its body.
ClauseSelfReference ==
    /\ InLoop
    /\ LET att == Attempt(Top)
       IN  /\ ~att.raised
           /\ ~att.unified.isFalse
           /\ att.bound # RecursionError
           /\ HeadInBody(att.bound)
           /\ counter' = att.counter
           /\ db' = WithClause(db, Top.goal.pred, att.clause, att.stored)
           /\ stack' = WithTop(NextClause(Top, att))
           /\ trail' = Append(trail, Activation(Top, att, "head in body"))
    /\ UNCHANGED <<ret, pc, result, output, answers, error, toplevel, callVars>>

\* prove, loop body: prove_all(renamed.body + remaining, unified, db).
ClauseSubgoals ==
    /\ InLoop
    /\ LET att == Attempt(Top)
           goals == Subgoals(att.bound, Top.remaining)
           waiting == [Top EXCEPT !.stage = "called", !.bindings = att.bindings]
       IN  /\ ~att.raised
           /\ ~att.unified.isFalse
           /\ att.bound # RecursionError
           /\ ~HeadInBody(att.bound)
           /\ counter' = att.counter
           /\ db' = WithClause(db, Top.goal.pred, att.clause, att.stored)
           /\ trail' = Append(trail, Activation(Top, att, "subgoals"))
           /\ IF ProveAllReturns(goals, att.unified)
              THEN /\ stack' = WithTop(waiting)
                   /\ ret' = ProveAllValue(goals, att.unified)
                   /\ UNCHANGED <<error, pc>>
              ELSE Call(waiting, ProveAllFrame(goals, att.unified))
    /\ UNCHANGED <<result, output, answers, toplevel, callVars>>

Returned(stage) == Running /\ ret # None /\ Top.stage = stage

\* prove, after prove_all returned False: continue with the next clause.
ClauseFailed ==
    /\ Returned("called")
    /\ MovesOn(ret)
    /\ stack' = WithTop([Top EXCEPT !.stage = "loop", !.i = Top.i + 1])
    /\ ret' = None
    /\ UNCHANGED <<db, counter, pc, result, output, answers, error, trail, toplevel, callVars>>

\* prove, after prove_all returned bindings: return them.
ClauseSucceeded ==
    /\ Returned("called")
    /\ ~MovesOn(ret)
    /\ stack' = Pop
    /\ UNCHANGED <<db, counter, ret, pc, result, output, answers, error, trail, toplevel,
                   callVars>>

\* prove, after the loop: no clause proved the goal.
ProveExhausted ==
    /\ AtProve("loop")
    /\ Top.i > Len(Top.query)
    /\ stack' = Pop
    /\ ret' = False
    /\ UNCHANGED <<db, counter, pc, result, output, answers, error, trail, toplevel, callVars>>

\* `return query(...)` in prove and `return prove_all(...)` in
\* display_bindings: hand the value on.
TailReturn ==
    /\ Returned("tail")
    /\ stack' = Pop
    /\ UNCHANGED <<db, counter, ret, pc, result, output, answers, error, trail, toplevel,
                   callVars>>

RECURSIVE Report(_, _, _, _)
\* The for loop of display_bindings: one line `var : var.lookup(bindings)`
\* for each variable, or only RecursionError when a lookup raised.
Report(vs, i, lines, bindings) ==
    IF i > Len(vs) THEN lines
    ELSE LET value == lookup(vs[i], bindings, 1)
         IN  IF value = RecursionError THEN <<RecursionError>>
             ELSE Report(vs, i + 1, Append(lines, [var |-> vs[i], value |-> value]),
                         bindings)

\* What display_bindings prints.
Printed(vs, bindings) ==
    [text |-> IF vs = <<>> THEN "Yes." ELSE "", lines |-> Report(vs, 1, <<>>, bindings)]

\* A driver whose every answer asks for another solution.
WantsMoreAlways(input) == TRUE

\* The answer at 'Continue? ' asks for another solution.
WantsMore(input) == StripLower(input) \in {"yes", "y"}

PrimitiveCall(fr, input, returned) ==
    [kind |-> "display_bindings", pred |-> fr.goal.pred, idx |-> 0, minted |-> {},
     outcome |-> returned, depth |-> Len(stack), given |-> fr.bindings,
     bindings |-> fr.bindings, input |-> input, remaining |-> fr.remaining]

AtDisplay == Running /\ ret = None /\ Top.fn = "display_bindings" /\ Top.stage = "entry"

\* display_bindings: print the bindings, ask, and return False when the
\* driver wants another solution.
DisplayBindingsMore(input) ==
    /\ AtDisplay
    /\ WantsMore(input)
    /\ LET printed == Printed(Top.goal.args, Top.bindings.env)
       IN  IF printed.lines = <<RecursionError>>
           THEN /\ Raise("RecursionError")
                /\ UNCHANGED <<output, answers, trail>>
           ELSE /\ output' = Append(output, printed)
                /\ answers' = Append(answers, input)
                /\ trail' = Append(trail, PrimitiveCall(Top, input, "False"))
                /\ stack' = Pop
                /\ ret' = False
                /\ UNCHANGED <<error, pc>>
    /\ UNCHANGED <<db, counter, result, toplevel, callVars>>

\* display_bindings: print the bindings, ask, and go on with
\* prove_all(remaining, bindings, db) otherwise.
DisplayBindingsStop(input) ==
    /\ AtDisplay
    /\ ~WantsMore(input)
    /\ LET printed == Printed(Top.goal.args, Top.bindings.env)
       IN  IF printed.lines = <<RecursionError>>
           THEN /\ Raise("RecursionError")
                /\ UNCHANGED <<output, answers, trail>>
           ELSE /\ output' = Append(output, printed)
                /\ answers' = Append(answers, input)
                /\ trail' = Append(trail, PrimitiveCall(Top, input, "prove_all"))
                /\ IF ProveAllReturns(Top.remaining, Top.bindings)
                   THEN /\ stack' = Pop
                        /\ ret' = ProveAllValue(Top.remaining, Top.bindings)
                        /\ UNCHANGED <<error, pc>>
                   ELSE Call([Top EXCEPT !.stage = "tail"],
                             ProveAllFrame(Top.remaining, Top.bindings))
    /\ UNCHANGED <<db, counter, result, toplevel, callVars>>

\* The top-level call returns; prolog_prove then prints 'No.'.
Finish ==
    /\ pc = "running"
    /\ stack = <<>>
    /\ ret # None
    /\ pc' = "done"
    /\ ret' = None
    /\ IF toplevel.fn = "prolog_prove"
       THEN /\ result' = None
            /\ output' = Append(output, [text |-> "No.", lines |-> <<>>])
       ELSE /\ result' = ret
            /\ UNCHANGED output
    /\ UNCHANGED <<db, counter, stack, answers, error, trail, toplevel, callVars>>

Next ==
    \/ \E clause \in Clauses : Store(clause)
    \/ \E pred \in RetrievePreds : Retrieve(pred)
    \/ \E name \in ProcedureNames : DefineProcedure(name)
    \/ \E goals \in Queries : \E bindings \in {False, Bindings(EmptyBindings)} :
          CallProveAll(goals, bindings)
    \/ \E goals \in Queries \ {<<>>} : \E bindings \in {False, Bindings(EmptyBindings)} :
          CallProve(Head(goals), bindings, Tail(goals))
    \/ \E goals \in Queries : PrologProve(goals)
    \/ \E x \in UnifyTerms, y \in UnifyTerms : \E bindings \in UnifyBindings :
          CallUnifyWith(x, y, bindings)
    \/ ProveFailedBefore
    \/ ProveUndefined
    \/ ProvePrimitive
    \/ ProveClauses
    \/ ClauseNoUnify
    \/ ClauseRaises
    \/ ClauseSelfReference
    \/ ClauseSubgoals
    \/ ClauseFailed
    \/ ClauseSucceeded
    \/ ProveExhausted
    \/ TailReturn
    \/ \E input \in Inputs : DisplayBindingsMore(input)
    \/ \E input \in Inputs : DisplayBindingsStop(input)
    \/ Finish

Spec == Init /\ [][Next]_vars

----------------------------------------------------------------------------
\* Calls of unify, Var.lookup and Relation.bind_vars by a caller that starts
\* with a bindings dictionary and passes on what unify returns, as prove does.

\* The terms the caller passes.
Terms ==
    {atomA, atomB, X, Y, Z,
     f(X), f(atomA), g(X), g(Y), f(f(X)), f(f(atomA)),
     f2(X, Y), f2(Y, X), f2(X, atomA), f2(atomB, atomB), f2(Z, f(Z))}
UserVars == {X, Y, Z}
Relations == {t \in Terms : IsRelation(t)}

\* The dictionaries the caller may start with: the empty one, and one in
\* which two variables are bound to each other.
InitBindings == {EmptyBindings, [x |-> Y, y |-> X]}

NoCall == [unified |-> False, bindings |-> EmptyBindings, term |-> None, raised |-> FALSE]

InitCalls ==
    /\ op = "none"
    /\ argx = None
    /\ argy = None
    /\ origin \in InitBindings
    /\ before = origin
    /\ cur = origin
    /\ out = NoCall
    /\ calls = 0

\* The engine is not used by the calls.
InitIdle ==
    /\ db = EmptyBindings
    /\ counter = 0
    /\ stack = <<>>
    /\ ret = None
    /\ pc = "idle"
    /\ result = None
    /\ output = <<>>
    /\ answers = <<>>
    /\ error = ""
    /\ trail = <<>>
    /\ toplevel = NotCalled

\* bindings = unify(s, t, bindings) or bindings
CallUnify(s, t) ==
    /\ calls < MaxCalls
    /\ LET r == UnifyCall(s, t, cur)
       IN  /\ out' = [unified |-> r.unified, bindings |-> r.bindings,
                      term |-> None, raised |-> r.raised]
           /\ cur' = IF r.unified.isFalse THEN r.bindings ELSE r.unified.env
    /\ op' = "unify"
    /\ argx' = s
    /\ argy' = t
    /\ before' = cur
    /\ calls' = calls + 1
    /\ UNCHANGED <<origin, engineVars>>

\* v.lookup(bindings)
CallLookup(v) ==
    /\ op' = "lookup"
    /\ argx' = v
    /\ argy' = None
    /\ before' = cur
    /\ out' = [NoCall EXCEPT !.term = lookup(v, cur, 1), !.bindings = cur]
    /\ UNCHANGED <<cur, calls, origin, engineVars>>

\* r.bind_vars(bindings)
CallBindVars(r) ==
    /\ op' = "bind_vars"
    /\ argx' = r
    /\ argy' = None
    /\ before' = cur
    /\ out' = [NoCall EXCEPT !.term = bind_vars(r, cur, 1), !.bindings = cur]
    /\ UNCHANGED <<cur, calls, origin, engineVars>>

NextCalls ==
    \/ \E s \in Terms, t \in Terms : CallUnify(s, t)
    \/ \E v \in UserVars : CallLookup(v)
    \/ \E r \in Relations : CallBindVars(r)

InitUnify == InitCalls /\ InitIdle

SpecUnify == InitUnify /\ [][NextCalls]_vars

----------------------------------------------------------------------------
\* Notions the properties of unify, lookup and bind_vars are stated with.

\* The names of the variables of a term, at every nesting depth.
VarNames(t) == {v.var : v \in Range(get_vars(t))}

RECURSIVE ReachedFrom(_, _)
\* The variable names reached from the names S through the bindings e.
ReachedFrom(S, e) ==
    LET T == S \cup UNION {VarNames(e[v]) : v \in S \cap DOMAIN e}
    IN  IF T = S THEN S ELSE ReachedFrom(T, e)

\* Some variable is bound, directly or transitively, to a term containing it.
SelfContaining(e) == \E v \in DOMAIN e : v \in ReachedFrom(VarNames(e[v]), e)

Diverges == [tag |-> "Diverges"]

RECURSIVE Resolve(_, _, _)
RECURSIVE ResolveArgs(_, _, _, _, _)
\* The term t with every variable replaced by its fully dereferenced value
\* under e, at every nesting depth; Diverges when that needs more than
\* `fuel` nested replacements.
Resolve(t, e, fuel) ==
    IF fuel = 0 THEN Diverges
    ELSE IF IsVar(t)
         THEN IF t.var \in DOMAIN e THEN Resolve(e[t.var], e, fuel - 1) ELSE t
    ELSE IF IsRelation(t) THEN ResolveArgs(t, 1, <<>>, e, fuel - 1)
    ELSE t

ResolveArgs(t, i, done, e, fuel) ==
    IF i > Len(t.args) THEN Relation(t.pred, done)
    ELSE LET r == Resolve(t.args[i], e, fuel)
         IN  IF r = Diverges THEN Diverges
             ELSE ResolveArgs(t, i + 1, Append(done, r), e, fuel)

\* The last call was unify and returned a dictionary.
Unified == op = "unify" /\ ~out.raised /\ ~out.unified.isFalse

----------------------------------------------------------------------------
\* C1 (as stated): whenever unify(x, y, e) returns a dictionary e' for an e
\* in which no variable is bound to a term containing itself, replacing the
\* variables of x and of y by their fully dereferenced values under e' gives
\* two equal terms.
C1_SoundAsStated ==
    (Unified /\ ~SelfContaining(before)) =>
        LET rx == Resolve(argx, out.unified.env, MaxRecursion)
            ry == Resolve(argy, out.unified.env, MaxRecursion)
        IN  rx # Diverges /\ ry # Diverges /\ rx = ry

\* C1 (amended): the same, when also in the returned e' no variable is
\* bound to a term containing itself.
C1_Sound ==
    (Unified /\ ~SelfContaining(before) /\ ~SelfContaining(out.unified.env)) =>
        LET rx == Resolve(argx, out.unified.env, MaxRecursion)
            ry == Resolve(argy, out.unified.env, MaxRecursion)
        IN  rx # Diverges /\ ry # Diverges /\ rx = ry

\* A second unify, of two different relations, that extended a non-empty
\* dictionary without creating a self-containing binding.
C1_Witness ==
    /\ Unified
    /\ calls = 2
    /\ IsRelation(argx) /\ IsRelation(argy) /\ argx # argy
    /\ before # EmptyBindings
    /\ out.unified.env # before
    /\ ~SelfContaining(out.unified.env)

\* C7: unify leaves the dictionary it was given as it was, whether it
\* returns a dictionary or False.
C7_UnifyKeepsBindings == op = "unify" => out.bindings = before

\* unify returned False after its first pair of arguments had been unified
\* with a new binding.
C7_Witness ==
    /\ op = "unify" /\ out.unified.isFalse /\ ~out.raised
    /\ IsRelation(argx) /\ IsRelation(argy)
    /\ Len(argx.args) = 2 /\ Len(argy.args) = 2
    /\ LET first == UnifyCall(argx.args[1], argy.args[1], before)
       IN  ~first.unified.isFalse /\ first.unified.env # before

\* C8 (as stated): Var.lookup returns, without exceeding the recursion
\* limit, under every dictionary unify produces from the empty one.
C8_LookupReturnsAsStated ==
    (op = "lookup" /\ origin = EmptyBindings) => out.term # RecursionError

\* C8 (amended): it does so when no variable is bound, directly or
\* transitively, to a term containing that variable.
C8_LookupReturns ==
    (op = "lookup" /\ origin = EmptyBindings /\ ~SelfContaining(cur)) =>
        out.term # RecursionError

\* A lookup that went through a variable chain into a relation it expanded.
C8_Witness ==
    /\ op = "lookup" /\ origin = EmptyBindings /\ ~SelfContaining(cur)
    /\ InBindings(argx, cur) /\ IsVar(cur[argx.var])
    /\ IsRelation(out.term)
    /\ VarNames(out.term) = {}

\* C9: what bind_vars and lookup return holds no variable that is bound in
\* the dictionary, at any nesting depth.
C9_FullyDereferenced ==
    (/\ op \in {"bind_vars", "lookup"}
     /\ origin = EmptyBindings /\ ~SelfContaining(cur)
     /\ out.term # RecursionError /\ out.term # None) =>
        VarNames(out.term) \cap DOMAIN cur = {}

----------------------------------------------------------------------------
\* What a database of function-free clauses entails, computed bottom-up and
\* without the engine: the ground facts over the individuals that follow from
\* the clauses, and whether some ground instance of a goal list is among them.

Individuals == {joe, judy, jorge}

FunctionFree(r) == \A i \in DOMAIN r.args : IsAtom(r.args[i]) \/ IsVar(r.args[i])

Instance(r, theta) ==
    Relation(r.pred,
             [i \in DOMAIN r.args |->
                 IF IsVar(r.args[i]) THEN theta[r.args[i].var] ELSE r.args[i]])

StoredClauses(d) == UNION {Range(d[k].clauses) : k \in DOMAIN d}

Datalog(d, goals) ==
    /\ \A k \in DOMAIN d : IsList(d[k])
    /\ \A c \in StoredClauses(d) :
          FunctionFree(c.head) /\ \A i \in DOMAIN c.body : FunctionFree(c.body[i])
    /\ \A i \in DOMAIN goals : FunctionFree(goals[i])

GroundClauses(d) ==
    UNION {{[head |-> Instance(c.head, theta),
             body |-> {Instance(c.body[i], theta) : i \in DOMAIN c.body}] :
               theta \in [VarNames(c) -> Individuals]} : c \in StoredClauses(d)}

RECURSIVE Entailed(_, _)
Entailed(M, G) ==
    LET N == M \cup {gc.head : gc \in {gc \in G : gc.body \subseteq M}}
    IN  IF N = M THEN M ELSE Entailed(N, G)

Solvable(goals, d) ==
    LET M == Entailed({}, GroundClauses(d))
        names == UNION {VarNames(goals[i]) : i \in DOMAIN goals}
    IN  \E theta \in [names -> Individuals] :
            \A i \in DOMAIN goals : Instance(goals[i], theta) \in M

\* A call of prove or prove_all with the empty dictionary has returned.
Proved ==
    /\ pc = "done" /\ error = ""
    /\ toplevel.fn \in {"prove", "prove_all"}
    /\ toplevel.bindings = Bindings(EmptyBindings)
    /\ Datalog(db, toplevel.goals)

Activations == {i \in DOMAIN trail : trail[i].kind = "clause"}
Reportings == {i \in DOMAIN trail : trail[i].kind = "display_bindings"}

\* The variable names a dictionary mentions, as keys or inside values.
Mentioned(e) == DOMAIN e \cup UNION {VarNames(e[v]) : v \in DOMAIN e}

----------------------------------------------------------------------------
\* C2: prove and prove_all succeed whenever some candidate clause leads to a
\* proof of its body and all remaining goals, however many earlier clauses
\* fail at head unification or in their whole subtree: when the goals have
\* a solution and the call returns, it does not return False.
C2_Exhaustive == (Proved /\ Solvable(toplevel.goals, db)) => ~result.isFalse

\* The call succeeded through a later clause for its first goal after an
\* earlier clause had unified and its whole subtree had failed, and
\* somewhere a head had not unified.
C2_Witness ==
    /\ Proved /\ ~result.isFalse
    /\ \E i, j \in Activations :
          /\ i < j
          /\ trail[i].depth = 1 /\ trail[i].outcome = "subgoals"
          /\ trail[j].depth = 1 /\ trail[j].idx > trail[i].idx
          /\ trail[j].outcome = "subgoals"
    /\ \E k \in Activations : trail[k].outcome = "no unify"

\* C3: two activations of the same stored clause within one proof have
\* disjoint variables, and the variables of an activation occur nowhere in
\* the bindings made before it.
C3_FreshVariables ==
    \A j \in Activations :
        /\ ~trail[j].given.isFalse =>
              trail[j].minted \cap Mentioned(trail[j].given.env) = {}
        /\ \A i \in Activations :
              (i < j /\ trail[i].pred = trail[j].pred /\ trail[i].idx = trail[j].idx)
                  => trail[i].minted \cap trail[j].minted = {}

\* A rule with variables was activated twice, both heads unified, and the
\* proof succeeded.
C3_Witness ==
    /\ pc = "done" /\ error = "" /\ toplevel.fn = "prove_all" /\ ~result.isFalse
    /\ \E i, j \in Activations :
          /\ i < j
          /\ trail[i].pred = trail[j].pred /\ trail[i].idx = trail[j].idx
          /\ trail[i].minted # {} /\ trail[j].minted # {}
          /\ trail[i].outcome = "subgoals" /\ trail[j].outcome = "subgoals"

\* What display_bindings prints for a one-goal query answered by a fact,
\* when Var.counter is n at the activation of the fact.
FactReport(goal, fact, n) ==
    LET u == UnifyCall(goal, recursive_rename(fact, n).clause.head, EmptyBindings)
    IN  IF u.raised \/ u.unified.isFalse THEN None
        ELSE Printed(get_vars(goal), u.unified.env)

Reports == SelectSeq(output, LAMBDA o : o.text # "No.")

\* prolog_prove has returned for one goal whose predicate is defined by two
\* facts; the driver asked for another solution once and then stopped.
TwoFactsAskedOnce ==
    /\ pc = "done" /\ error = ""
    /\ toplevel.fn = "prolog_prove" /\ Len(toplevel.goals) = 1
    /\ toplevel.goals[1].pred \in DOMAIN db
    /\ IsList(db[toplevel.goals[1].pred])
    /\ Len(db[toplevel.goals[1].pred].clauses) = 2
    /\ \A c \in Range(db[toplevel.goals[1].pred].clauses) : c.body = <<>>
    /\ Len(answers) = 2
    /\ StripLower(answers[1]) \in {"yes", "y"}
    /\ StripLower(answers[2]) \notin {"yes", "y"}

\* C4: then exactly two reports were printed, the first from the fact stored
\* first and the second from the fact stored second, and for two different
\* facts the second report differs from the first.
C4_EnumerationOrder ==
    TwoFactsAskedOnce =>
        LET facts == db[toplevel.goals[1].pred].clauses
            first == FactReport(toplevel.goals[1], facts[1], 0)
            second == FactReport(toplevel.goals[1], facts[2],
                                 recursive_rename(facts[1], 0).counter)
        IN  /\ Len(Reports) = 2
            /\ Reports[1] = first
            /\ Reports[2] = second
            /\ facts[1] # facts[2] => Reports[1] # Reports[2]

\* Two different facts, both reported.
C4_Witness ==
    /\ TwoFactsAskedOnce
    /\ db[toplevel.goals[1].pred].clauses[1] # db[toplevel.goals[1].pred].clauses[2]
    /\ Len(Reports) = 2
    /\ Reports[1].lines # <<>>

\* display_bindings has printed and read the answer of the driver.
Answered == AtDisplay /\ answers' # answers

\* display_bindings returns False.
ReturnsFalse == stack' = Pop /\ ret' = False

\* display_bindings returns prove_all(remaining, bindings, db): what prove_all
\* returns at once, or what the call of prove it makes returns.
ReturnsProveAll ==
    IF ProveAllReturns(Top.remaining, Top.bindings)
    THEN stack' = Pop /\ ret' = ProveAllValue(Top.remaining, Top.bindings)
    ELSE \/ error' = "RecursionError"
         \/ /\ Len(stack') = Len(stack) + 1
            /\ stack'[Len(stack)].stage = "tail"
            /\ stack'[Len(stack')] = ProveAllFrame(Top.remaining, Top.bindings)

SaysYes(input) == StripLower(input) \in {"yes", "y"}

\* C5 (as stated): when the driver says yes at 'Continue? ' display_bindings
\* returns prove_all(remaining, bindings, db), and when the driver says
\* anything else it returns False.
C5_ContinueAsStated ==
    [][Answered =>
          IF SaysYes(answers'[Len(answers')]) THEN ReturnsProveAll ELSE ReturnsFalse]_vars

\* C5 (amended): when the driver says yes at 'Continue? ' display_bindings
\* returns False, and when the driver says anything else it returns
\* prove_all(remaining, bindings, db).
C5_Continue ==
    [][Answered =>
          IF SaysYes(answers'[Len(answers')]) THEN ReturnsFalse ELSE ReturnsProveAll]_vars

\* The driver said yes to one report and something else to a later one.
C5_Witness ==
    \E i, j \in Reportings :
        /\ i < j
        /\ SaysYes(trail[i].input) /\ trail[i].outcome = "False"
        /\ ~SaysYes(trail[j].input) /\ trail[j].outcome = "prove_all"

C10_ConjunctionFails == (Proved /\ ~Solvable(toplevel.goals, db)) => result.isFalse

\* prove_all returned False for two goals of which the first alone has a
\* solution, after a clause for the first goal had unified.
C10_Witness ==
    /\ Proved /\ result.isFalse
    /\ toplevel.fn = "prove_all"
    /\ Len(toplevel.goals) = 2
    /\ Solvable(<<toplevel.goals[1]>>, db)
    /\ ~Solvable(toplevel.goals, db)
    /\ \E i \in Activations : trail[i].depth = 1 /\ trail[i].outcome = "subgoals"

----------------------------------------------------------------------------
\* The stored facts, and the ground facts they stand for.
StoredFacts(d) == {c \in StoredClauses(d) : c.body = <<>>}

GroundFacts(d) ==
    UNION {{Instance(c.head, theta) : theta \in [VarNames(c) -> Individuals]} :
              c \in StoredFacts(d)}

\* Some rule for the goal has an instance whose head is an instance of the
\* goal and whose body goals are all stored facts.
ViaRule(goal, d) ==
    \E c \in StoredClauses(d) \ StoredFacts(d) :
        \E theta \in [VarNames(c) -> Individuals] :
            \E sigma \in [VarNames(goal) -> Individuals] :
                /\ Instance(c.head, theta) = Instance(goal, sigma)
                /\ \A i \in DOMAIN c.body : Instance(c.body[i], theta) \in GroundFacts(d)

\* The goal with each of its variables replaced by what Var.lookup gives
\* for it under the bindings e.
Answer(goal, e) ==
    Relation(goal.pred,
             [i \in DOMAIN goal.args |->
                 IF IsVar(goal.args[i]) THEN lookup(goal.args[i], e, 1)
                 ELSE goal.args[i]])

\* A call for one goal has returned, and a rule with provable body applies.
RuleApplies ==
    /\ Proved
    /\ Len(toplevel.goals) = 1
    /\ ViaRule(toplevel.goals[1], db)

\* C11: when the goal unifies with the head of a rule whose body goals are
\* provable from stored facts, the call succeeds, and each variable of the
\* goal dereferences to an individual for which the goal follows from the
\* database.
C11_RuleChaining ==
    RuleApplies =>
        /\ ~result.isFalse
        /\ LET answer == Answer(toplevel.goals[1], result.env)
           IN  /\ \A i \in DOMAIN answer.args : IsAtom(answer.args[i])
               /\ answer \in Entailed({}, GroundClauses(db))

\* The call succeeded through a rule: the variable of the goal is bound to
\* a variable minted for the rule, which is bound to the individual found
\* while proving the body.
C11_Witness ==
    /\ RuleApplies /\ ~result.isFalse
    /\ \E v \in VarNames(toplevel.goals[1]) :
          /\ v \in DOMAIN result.env
          /\ IsVar(result.env[v])
          /\ \E i \in Activations :
                /\ result.env[v].var \in trail[i].minted
                /\ trail[i].depth = 1 /\ Len(trail[i].remaining) = 0
                /\ Len(db[trail[i].pred].clauses[trail[i].idx].body) > 0
          /\ IsAtom(lookup(Var(v), result.env, 1))

----------------------------------------------------------------------------
\* A call of prove or prove_all with the empty dictionary for one goal has
\* ended, the database holds one clause, a fact of the predicate and arity
\* of the goal, and each argument of the goal is a variable or equal to the
\* argument of the fact at its position.
OneFact ==
    /\ pc = "done"
    /\ toplevel.fn \in {"prove", "prove_all"}
    /\ toplevel.bindings = Bindings(EmptyBindings)
    /\ Len(toplevel.goals) = 1
    /\ DOMAIN db = {toplevel.goals[1].pred}
    /\ IsList(db[toplevel.goals[1].pred])
    /\ Len(db[toplevel.goals[1].pred].clauses) = 1
    /\ LET fact == db[toplevel.goals[1].pred].clauses[1]
           goal == toplevel.goals[1]
       IN  /\ fact.body = <<>>
           /\ Len(fact.head.args) = Len(goal.args)
           /\ \A i \in DOMAIN goal.args :
                 IsVar(goal.args[i]) \/ goal.args[i] = fact.head.args[i]

TheFact == db[toplevel.goals[1].pred].clauses[1]

\* The call returned a dictionary, not False, under which each variable of
\* the goal dereferences to the argument of the fact at its position.
FactProved ==
    /\ error = ""
    /\ ~result.isFalse
    /\ \A i \in DOMAIN toplevel.goals[1].args :
          IsVar(toplevel.goals[1].args[i]) =>
              lookup(toplevel.goals[1].args[i], result.env, 1) = TheFact.head.args[i]

\* C12 (as stated): with one stored fact, a goal of its predicate and arity
\* whose arguments are variables or equal to the fact's arguments is proved,
\* and each goal variable dereferences to the fact's argument.
C12_FactProofAsStated == OneFact => FactProved

\* C12 (amended): so it is when the fact holds no variable and a variable
\* that occurs at several positions of the goal meets equal arguments of
\* the fact there.
C12_FactProof ==
    (/\ OneFact
     /\ VarNames(TheFact) = {}
     /\ \A i, j \in DOMAIN toplevel.goals[1].args :
           toplevel.goals[1].args[i] = toplevel.goals[1].args[j]
               => TheFact.head.args[i] = TheFact.head.args[j])
        => FactProved

\* A ground goal equal to the fact was proved with the empty dictionary as
\* the result.
C12_Witness ==
    /\ OneFact /\ FactProved
    /\ VarNames(toplevel.goals[1]) = {}
    /\ result = Bindings(EmptyBindings)

----------------------------------------------------------------------------
\* prove is about to look up its goal, and the entry is a Python function.
AtPrimitiveGoal ==
    /\ AtProve("entry")
    /\ ~Top.bindings.isFalse
    /\ Top.goal.pred \in DOMAIN db
    /\ db[Top.goal.pred].proc # ""

\* The function is called with the arguments of the goal, the bindings,
\* and the remaining goals, while prove waits to return its value.
PrimitiveInvoked ==
    \/ error' = "RecursionError"
    \/ /\ Len(stack') = Len(stack) + 1
       /\ SubSeq(stack', 1, Len(stack) - 1) = Pop
       /\ stack'[Len(stack)] = [Top EXCEPT !.stage = "tail"]
       /\ LET called == stack'[Len(stack')]
          IN  /\ called.fn = db[Top.goal.pred].proc
              /\ called.stage = "entry"
              /\ called.goal.args = Top.goal.args
              /\ called.bindings = Top.bindings
              /\ called.remaining = Top.remaining

\* The function has returned to the prove that called it.
PrimitiveReturned == Returned("tail") /\ Top.fn = "prove"

----------------------------------------------------------------------------
\* prove is about to look up its goal, and the database has no entry for
\* the predicate, or an empty list of clauses.
AtUndefinedGoal ==
    /\ AtProve("entry")
    /\ ~Top.bindings.isFalse
    /\ \/ Top.goal.pred \notin DOMAIN db
       \/ db[Top.goal.pred] = ClauseList(<<>>)

\* C14: prove of a goal whose predicate has no entry, or an empty list of
\* clauses, returns False; it raises nothing and leaves the database as it
\* is.
C14_UndefinedFails ==
    [][AtUndefinedGoal =>
          /\ stack' = Pop /\ ret' = False
          /\ error' = "" /\ db' = db /\ trail' = trail]_vars

\* A call of prove for a predicate without entry, on a database with other
\* entries, returned False and the predicate still has no entry.
C14_Witness ==
    /\ pc = "done" /\ error = ""
    /\ toplevel.fn = "prove"
    /\ toplevel.bindings = Bindings(EmptyBindings)
    /\ result = False
    /\ trail = <<>>
    /\ toplevel.goals[1].pred \notin DOMAIN db
    /\ DOMAIN db # {}

----------------------------------------------------------------------------
\* A call with False for the bindings has ended.
GivenFalse ==
    /\ pc = "done"
    /\ toplevel.fn \in {"unify", "prove", "prove_all"}
    /\ toplevel.bindings.isFalse

RECURSIVE SomePairFails(_, _, _, _)
\* Unifying the pairs xs[i], ys[i] one after the other from index i on,
\* each under the bindings the pairs before it gave, comes to a pair that
\* does not unify.
SomePairFails(xs, ys, i, b) ==
    IF i > Len(xs) THEN FALSE
    ELSE LET r == UnifyCall(xs[i], ys[i], b)
         IN  IF r.raised THEN FALSE
             ELSE IF r.unified.isFalse THEN TRUE
             ELSE SomePairFails(xs, ys, i + 1, r.unified.env)

\* unify was called for two relations of one predicate and arity.
RelationsGiven ==
    /\ pc = "done" /\ toplevel.fn = "unify"
    /\ ~toplevel.bindings.isFalse
    /\ IsRelation(toplevel.goals[1]) /\ IsRelation(toplevel.goals[2])
    /\ toplevel.goals[1].pred = toplevel.goals[2].pred
    /\ Len(toplevel.goals[1].args) = Len(toplevel.goals[2].args)

\* C15: unify, prove and prove_all return False at once when the bindings
\* they are given are False, for any terms and goals, prove_all also for no
\* goals; and unify of two relations returns False when a pair of their
\* arguments does not unify.
C15_FailurePropagates ==
    /\ GivenFalse =>
          /\ result = False /\ error = ""
          /\ trail = <<>> /\ output = <<>> /\ counter = 0
    /\ (/\ RelationsGiven
        /\ SomePairFails(toplevel.goals[1].args, toplevel.goals[2].args, 1,
                         toplevel.bindings.env))
          => result = False /\ error = ""

\* unify returned False for two relations whose first pair of arguments
\* does not unify under the bindings given, while the second pair would.
C15_Witness ==
    /\ RelationsGiven
    /\ result = False /\ error = ""
    /\ Len(toplevel.goals[1].args) = 2
    /\ UnifyCall(toplevel.goals[1].args[1], toplevel.goals[2].args[1],
                 toplevel.bindings.env).unified.isFalse
    /\ ~UnifyCall(toplevel.goals[1].args[2], toplevel.goals[2].args[2],
                  toplevel.bindings.env).unified.isFalse

----------------------------------------------------------------------------
\* The variable names of the terms and dictionaries passed to unify, and
\* the one-to-one renamings of them.
Names == {"x", "y", "z"}
Renamings == {rho \in [Names -> Names] : \A u, v \in Names : rho[u] = rho[v] => u = v}

RECURSIVE Renamed(_, _)
\* The term t with its variables renamed by rho.
Renamed(t, rho) ==
    IF IsVar(t) THEN Var(rho[t.var])
    ELSE IF IsRelation(t)
         THEN Relation(t.pred, [i \in DOMAIN t.args |-> Renamed(t.args[i], rho)])
    ELSE t

\* Under the dictionaries d and e every variable in vs dereferences to the
\* same term, up to one renaming of the variables left unbound.
Equivalent(vs, d, e) ==
    \E rho \in Renamings :
        \A v \in vs :
            Renamed(Resolve(Var(v), d, MaxRecursion), rho) = Resolve(Var(v), e, MaxRecursion)

\* unify(y, x, bindings) for the call unify(x, y, bindings) just made.
Swapped == UnifyCall(argy, argx, before)

\* C16: unify(a, b, e) returns a dictionary exactly when unify(b, a, e)
\* does, and then every variable of a and b dereferences to equivalent
\* terms under the two dictionaries.
C16_Symmetric ==
    op = "unify" =>
        /\ out.raised = Swapped.raised
        /\ out.unified.isFalse = Swapped.unified.isFalse
        /\ ~out.unified.isFalse =>
              Equivalent(VarNames(argx) \cup VarNames(argy),
                         out.unified.env, Swapped.unified.env)

\* unify of a variable with another variable under bindings that came from
\* an earlier unify gave a dictionary that differs from the one the swapped
\* call gives.
C16_Witness ==
    /\ Unified
    /\ calls = 2
    /\ argx # argy
    /\ VarNames(argx) \cup VarNames(argy) # {}
    /\ before # EmptyBindings
    /\ ~SelfContaining(out.unified.env)
    /\ out.unified.env # Swapped.unified.env

----------------------------------------------------------------------------
\* C17: unify(a, a, e) returns a dictionary with exactly the bindings of e,
\* for every term a and dictionary e.
C17_Identity ==
    (op = "unify" /\ argx = argy) =>
        ~out.raised /\ out.unified = Bindings(before)

\* unify of a relation with itself, under bindings that bind one of its
\* variables, returned these bindings.
C17_Witness ==
    /\ op = "unify" /\ argx = argy
    /\ IsRelation(argx)
    /\ VarNames(argx) \cap DOMAIN before # {}
    /\ out.unified = Bindings(before)

----------------------------------------------------------------------------
\* unify was called for two relations.
TwoRelations == op = "unify" /\ IsRelation(argx) /\ IsRelation(argy)

\* C18: unify of two relations returns False when their predicate names
\* differ or their numbers of arguments differ, whatever the arguments and
\* the bindings are.
C18_MismatchFails ==
    (/\ TwoRelations
     /\ argx.pred # argy.pred \/ Len(argx.args) # Len(argy.args))
        => out.unified.isFalse /\ ~out.raised

\* Two relations with different predicate names, the same number of
\* arguments and only variables for arguments, which would unify pair by
\* pair, under bindings that are not empty.
C18_Witness ==
    /\ TwoRelations
    /\ argx.pred # argy.pred
    /\ Len(argx.args) = Len(argy.args)
    /\ \A i \in DOMAIN argx.args : IsVar(argx.args[i]) /\ IsVar(argy.args[i])
    /\ before # EmptyBindings
    /\ out.unified.isFalse /\ ~out.raised

----------------------------------------------------------------------------
\* A caller whose goals may use variables with names of the form var<N>.

NamedQueries ==
    {<<likes(Var("var0"), jorge)>>,
     <<likes(joe, Var("var0"))>>,
     <<likes(jorge, Var("var1"))>>,
     <<likes(X, jorge)>>,
     <<likes(Var("var0"), joe), hates(judy, Var("var0"))>>,
     <<eq(Var("var0"), Var("var0"))>>}

NextNames ==
    \/ \E clause \in Clauses : Store(clause)
    \/ \E goals \in NamedQueries : CallProveAll(goals, Bindings(EmptyBindings))
    \/ ProveUndefined
    \/ ProveClauses
    \/ ClauseNoUnify
    \/ ClauseRaises
    \/ ClauseSelfReference
    \/ ClauseSubgoals
    \/ ClauseFailed
    \/ ClauseSucceeded
    \/ ProveExhausted
    \/ Finish

SpecNames == Init /\ [][NextNames]_vars

\* The variable names of the goals of the call.
QueryNames == UNION {VarNames(toplevel.goals[i]) : i \in DOMAIN toplevel.goals}

\* C19: each variable minted for a clause activation differs from every
\* variable of the goals of the call, of the bindings the activation was
\* given and of every earlier activation, whatever names the caller uses.
C19_NoCollision ==
    \A j \in Activations :
        /\ trail[j].minted \cap QueryNames = {}
        /\ ~trail[j].given.isFalse =>
              trail[j].minted \cap Mentioned(trail[j].given.env) = {}
        /\ \A i \in Activations : i < j => trail[i].minted \cap trail[j].minted = {}

----------------------------------------------------------------------------
\* The entry under the name k is a list of clauses for k and no function,
\* or a function and no clauses.
WellFormed(k, entry) ==
    IF entry.proc = ""
    THEN \A i \in DOMAIN entry.clauses : entry.clauses[i].head.pred = k
    ELSE entry.clauses = <<>>

\* The entry changes from old to new by one clause appended to a list, or
\* by a function put in its place.
Rewritten(k, old, new) ==
    \/ /\ old.proc = "" /\ new.proc = ""
       /\ Len(new.clauses) = Len(old.clauses) + 1
       /\ SubSeq(new.clauses, 1, Len(old.clauses)) = old.clauses
    \/ /\ old.proc = ""
       /\ new.proc # "" /\ new.clauses = <<>>

\* C20: every name of the database maps to a list of clauses whose head has
\* that name or to a function, never to both; an entry changes only by a
\* clause appended to a list or by a function replacing the list, and an
\* entry that is a function is left as it is by store.
C20_DatabaseForm ==
    /\ [](\A k \in DOMAIN db : WellFormed(k, db[k]))
    /\ [][\A k \in DOMAIN db :
             /\ k \in DOMAIN db'
             /\ db'[k] # db[k] => Rewritten(k, db[k], db'[k])]_vars

\* store was called for a predicate whose entry is a function: it raised,
\* and the database holds the function and, under another name, clauses.
C20_Witness ==
    /\ error = "AttributeError"
    /\ \E k \in DOMAIN db : db[k].proc # "" /\ db[k].clauses = <<>>
    /\ \E k \in DOMAIN db : db[k].proc = "" /\ db[k].clauses # <<>>

----------------------------------------------------------------------------
\* A call of prove or prove_all is running or has ended.
Proving == pc \in {"running", "done"} /\ toplevel.fn \in {"prove", "prove_all"}

\* The variable names the stored clauses are written with.
ClauseNames == UNION {VarNames(c) : c \in Clauses}

\* C21: no step of prove or prove_all changes the database: the predicate
\* names, the clauses under each name and their order stay as they are, and
\* every stored clause keeps the variables it was stored with, also after it
\* was renamed for an activation.
C21_DatabaseReadOnly ==
    /\ [](\A c \in StoredClauses(db) : c \in Clauses /\ VarNames(c) \subseteq ClauseNames)
    /\ [][Proving => db' = db]_vars

\* A call has succeeded through a rule and a fact whose variables were
\* renamed, on a database with two predicates.
C21_Witness ==
    /\ Proving /\ pc = "done" /\ error = "" /\ ~result.isFalse
    /\ Cardinality(DOMAIN db) = 2
    /\ \E i, j \in Activations :
          /\ i # j
          /\ trail[i].minted # {} /\ trail[i].outcome = "subgoals"
          /\ trail[j].outcome = "subgoals"
          /\ Len(db[trail[i].pred].clauses[trail[i].idx].body) > 0

----------------------------------------------------------------------------
\* The clauses under the name pred, none when the name has no entry.
ClausesUnder(d, pred) == IF pred \in DOMAIN d THEN d[pred].clauses ELSE <<>>

\* The step stores the clause where the entry is a list or absent.
Stores(clause) ==
    /\ Store(clause)
    /\ ~(clause.head.pred \in DOMAIN db /\ db[clause.head.pred].proc # "")

\* C22: store(db, clause) puts the clause at the end of the list under
\* clause.head.pred, which it creates when the name has no entry: the
\* clauses stored before stay in the order they were stored in, the list
\* grows by this one clause, and the entries of all other names stay as
\* they are.
C22_StoreAppends ==
    [][\A clause \in Clauses :
          Stores(clause) =>
              LET pred == clause.head.pred
                  old == ClausesUnder(db, pred)
              IN  /\ DOMAIN db' = DOMAIN db \cup {pred}
                  /\ db'[pred].proc = ""
                  /\ Len(db'[pred].clauses) = Len(old) + 1
                  /\ SubSeq(db'[pred].clauses, 1, Len(old)) = old
                  /\ db'[pred].clauses[Len(old) + 1] = clause
                  /\ \A k \in DOMAIN db \ {pred} : db'[k] = db[k]]_vars

\* Three stores: two different clauses under one name in the order they
\* were stored in, the later one being the one listed first among the
\* caller's clauses, and a clause under another name.
C22_Witness ==
    /\ pc = "setup" /\ error = ""
    /\ ClausesUnder(db, "likes") =
          <<Clause(likes(jorge, judy), <<>>),
            Clause(likes(joe, X), <<likes(X, joe), hates(judy, X)>>)>>
    /\ Len(ClausesUnder(db, "hates")) = 1

----------------------------------------------------------------------------
RECURSIVE ChainEnd(_, _, _)
\* The end of the chain of bindings from the term t on: the first term that
\* is no variable, or is an unbound variable, or is a variable bound to a
\* term of the chain seen so far.
ChainEnd(t, seen, e) ==
    IF ~IsVar(t) THEN t
    ELSE IF t.var \notin DOMAIN e THEN t
    ELSE IF e[t.var] \in seen THEN t
    ELSE ChainEnd(e[t.var], seen \cup {e[t.var]}, e)

\* The end of the chain from the variable v, None when v is unbound.
Dereferenced(v, e) ==
    IF v.var \notin DOMAIN e THEN None ELSE ChainEnd(e[v.var], {v, e[v.var]}, e)

\* The relation r with each argument that is a bound variable replaced by
\* what lookup gives for it.
Expanded(r, e) ==
    LET args == [i \in DOMAIN r.args |->
                    IF InBindings(r.args[i], e) THEN lookup(r.args[i], e, 1)
                    ELSE r.args[i]]
    IN  IF \E i \in DOMAIN args : args[i] = RecursionError THEN RecursionError
        ELSE Relation(r.pred, args)

\* C23 (as stated): v.lookup(e) returns None when v is unbound, and
\* otherwise the end of the chain of bindings from v: the first term that
\* is no variable, the unbound variable the chain ends in, or the last
\* variable reached before the chain comes back to a variable seen.  Read
\* for dictionaries in which no variable is bound to a term containing it.
C23_LookupChainAsStated ==
    (op = "lookup" /\ ~SelfContaining(cur)) => out.term = Dereferenced(argx, cur)

\* C23 (amended): the same, except that when the chain ends in a relation
\* lookup returns that relation with each argument that is a bound variable
\* replaced by its own lookup, which does not return when a variable is
\* bound to a relation containing it.
C23_LookupChain ==
    op = "lookup" =>
        LET end == Dereferenced(argx, cur)
        IN  out.term = IF IsRelation(end) THEN Expanded(end, cur) ELSE end

\* A lookup of a variable on a cycle of variables returned the other
\* variable of the cycle, after an earlier unify had bound a third variable.
C23_Witness ==
    /\ op = "lookup"
    /\ InBindings(argx, cur)
    /\ IsVar(out.term) /\ out.term # argx
    /\ InBindings(out.term, cur) /\ cur[out.term.var] = argx
    /\ calls > 0 /\ cur # origin

----------------------------------------------------------------------------
\* The clause prove renames at this step, and what unify gives for the
\* goal and its head.
RenamedNow == recursive_rename(Top.query[Top.i], counter).clause
UnifiedNow == UnifyCall(Top.goal, RenamedNow.head, Top.bindings.env)

\* The head of the renamed clause, with the bindings of the unification
\* substituted for its variables, is equal to a relation of its body with
\* the same substitution.
HeadAmongBody ==
    LET e == UnifiedNow.unified.env
        head == Resolve(RenamedNow.head, e, MaxRecursion)
    IN  \E i \in DOMAIN RenamedNow.body :
            head = Resolve(RenamedNow.body[i], e, MaxRecursion)

\* prove goes on to the next clause of its loop without any call.
SkipsClause ==
    /\ Len(stack') = Len(stack)
    /\ stack'[Len(stack)].stage = "loop" /\ stack'[Len(stack)].i = Top.i + 1
    /\ ret' = None

\* C24: a clause whose head unified with the goal is skipped, with no goal
\* of its body proved and the next clause tried, exactly when the head of
\* the renamed clause is equal to a relation of its body after the bindings
\* of the unification are substituted into both.
C24_SelfReferenceGuard ==
    [][(/\ InLoop
        /\ ~UnifiedNow.raised /\ ~UnifiedNow.unified.isFalse
        /\ error' = "")
          => (SkipsClause <=> HeadAmongBody)]_vars

\* The goals likes(?x, joe), hates(judy, ?x): the rule
\* likes(joe, ?x) :- likes(?x, joe), hates(judy, ?x), stored first, was
\* skipped for the first goal, and a later clause proved it.
C24_Witness ==
    /\ pc = "done" /\ error = "" /\ toplevel.fn = "prove_all"
    /\ ~result.isFalse
    /\ toplevel.goals = <<likes(X, joe), hates(judy, X)>>
    /\ \E i, j \in Activations :
          /\ i < j
          /\ trail[i].depth = 1 /\ trail[i].idx = 1
          /\ trail[i].outcome = "head in body"
          /\ trail[j].depth = 1 /\ trail[j].idx > 1
          /\ trail[j].outcome = "subgoals"

----------------------------------------------------------------------------
\* Calls of Clause.recursive_rename by a caller that then unifies the
\* renamed clause with the original one.

member(s, t) == Relation("member", <<s, t>>)

\* The clauses the caller renames.
RenameClauses ==
    Clauses \cup
    {Clause(member(X, Var("list")),
            <<Relation("first", <<Var("list"), Y>>),
              Relation("rest", <<Var("list"), Z>>),
              member(X, Z)>>),
     Clause(f2(X, f(f2(Y, X))), <<g(atomA), f2(f(Y), atomB)>>),
     Clause(f2(Var("var1"), X), <<f(Var("var0"))>>),
     Clause(f(atomA), <<g(atomB)>>)}

\* renamed = clause.recursive_rename()
CallRename(clause) ==
    /\ counter + Len(get_vars(clause)) <= MaxMinted
    /\ LET rn == recursive_rename(clause, counter)
       IN  /\ out' = [NoCall EXCEPT !.term = rn.clause, !.bindings = cur]
           /\ counter' = rn.counter
    /\ op' = "recursive_rename"
    /\ argx' = clause
    /\ argy' = None
    /\ before' = cur
    /\ UNCHANGED <<cur, calls, origin, db, stack, ret, pc, result, output, answers,
                   error, trail, toplevel>>

\* unify(renamed, clause, {})
UnifyRenamed ==
    /\ op = "recursive_rename"
    /\ LET r == UnifyCall(out.term, argx, EmptyBindings)
       IN  out' = [unified |-> r.unified, bindings |-> r.bindings, term |-> None,
                   raised |-> r.raised]
    /\ op' = "unify"
    /\ argx' = out.term
    /\ argy' = argx
    /\ before' = EmptyBindings
    /\ UNCHANGED <<cur, calls, origin, engineVars>>

NextRename ==
    \/ \E clause \in RenameClauses : CallRename(clause)
    \/ UnifyRenamed

SpecRename == InitUnify /\ [][NextRename]_vars

RECURSIVE Substituted(_, _)
\* The term or clause t with each variable v replaced by the variable
\* named rho[v], and everything else as it is.
Substituted(t, rho) ==
    IF IsAtom(t) THEN t
    ELSE IF IsVar(t) THEN Var(rho[t.var])
    ELSE IF IsRelation(t)
         THEN Relation(t.pred, [i \in DOMAIN t.args |-> Substituted(t.args[i], rho)])
    ELSE Clause(Substituted(t.head, rho),
                [i \in DOMAIN t.body |-> Substituted(t.body[i], rho)])

\* The names var<k> for the counter values k from n up to, not including, m.
MintedNames(n, m) == {VarName(k) : k \in n..(m - 1)}

\* C25: recursive_rename replaces the variables of the clause by one-to-one
\* chosen variables var<k>, k running over the counter values from the one
\* at the call on, the same variable for every occurrence of a variable in
\* head and body; the counter grows by one for each variable of the clause;
\* atoms and predicate names stay; and the renamed clause unifies with the
\* original one.
C25_Renaming ==
    /\ [][\A clause \in RenameClauses :
             CallRename(clause) =>
                 /\ counter' = counter + Cardinality(VarNames(clause))
                 /\ \E rho \in [VarNames(clause) -> MintedNames(counter, counter')] :
                       /\ \A u, v \in VarNames(clause) : rho[u] = rho[v] => u = v
                       /\ out'.term = Substituted(clause, rho)]_vars
    /\ []((op = "unify" /\ IsClause(argx)) => ~out.raised /\ ~out.unified.isFalse)

\* The clause of member, with four variables of which three occur more than
\* once, was renamed when the counter was not 0, and the renamed clause was
\* unified with it: each of the four new variables is bound to the variable
\* it replaced.
C25_Witness ==
    /\ op = "unify" /\ IsClause(argx)
    /\ argy.head.pred = "member"
    /\ argx # argy
    /\ VarName(0) \notin VarNames(argx)
    /\ ~out.unified.isFalse
    /\ Cardinality(DOMAIN out.unified.env) = 4
    /\ DOMAIN out.unified.env = VarNames(argx)
    /\ {out.unified.env[v] : v \in DOMAIN out.unified.env} = Range(get_vars(argy))

----------------------------------------------------------------------------
\* C26: unify returns, a dictionary or False, for all terms and every
\* dictionary, also one in which two variables are bound to each other: it
\* never exceeds the recursion limit.
C26_UnifyTerminates == op = "unify" => ~out.raised

----------------------------------------------------------------------------
\* unify was called for the variable v, unbound in the dictionary e, and
\* the relation r that contains v, as it stands or after the variables
\* bound in e are replaced.
Occurs(v, r, e) ==
    /\ IsVar(v) /\ IsRelation(r)
    /\ v.var \notin DOMAIN e
    /\ v.var \in ReachedFrom(VarNames(r), e)

\* The dictionary e with v bound to r and nothing else changed.
BoundTo(e, v, r) == [k \in DOMAIN e \cup {v.var} |-> IF k = v.var THEN r ELSE e[k]]

\* C27: unify of an unbound variable with a relation that contains it, in
\* either order of the arguments, returns the dictionary with the variable
\* bound to the relation; it does not return False and does not raise.
C27_NoOccursCheck ==
    op = "unify" =>
        /\ Occurs(argx, argy, before) =>
              ~out.raised /\ out.unified = Bindings(BoundTo(before, argx, argy))
        /\ Occurs(argy, argx, before) =>
              ~out.raised /\ out.unified = Bindings(BoundTo(before, argy, argx))

\* unify(r, v, e) for a relation r that does not show v but holds a
\* variable bound to v in e: afterwards v is bound to a term containing it.
C27_Witness ==
    /\ Unified
    /\ Occurs(argy, argx, before)
    /\ argy.var \notin VarNames(argx)
    /\ ~SelfContaining(before)
    /\ SelfContaining(out.unified.env)
    /\ out.unified.env[argy.var] = argx

----------------------------------------------------------------------------
\* Every variable bound in e is bound in d to the same term.
Extends(d, e) == \A v \in DOMAIN e : v \in DOMAIN d /\ d[v] = e[v]

\* A call unify(x, y, bindings) has ended.
UnifyEnded == pc = "done" /\ toplevel.fn = "unify" /\ ~toplevel.bindings.isFalse

\* One of the two terms is a variable bound to an atom in e and the other
\* is a different atom.
BoundToOther(s, t, e) ==
    /\ IsVar(s) /\ s.var \in DOMAIN e /\ IsAtom(e[s.var])
    /\ IsAtom(t) /\ t # e[s.var]

\* The calls of prove, of prove_all and of primitives that wait for the
\* value now being returned.
Waiting == {k \in DOMAIN stack : stack[k].stage \in {"called", "tail"}}

\* C28: a dictionary returned by unify, prove or prove_all binds every
\* variable bound in the dictionary the call was given, to the same term:
\* so for a call of unify by the caller, for the unify of a goal with a
\* clause head in prove, and for every call of prove and prove_all that
\* waits while a dictionary is returned; and unify of a variable bound to
\* an atom with another atom returns False.
C28_OnlyGrow ==
    /\ (UnifyEnded /\ error = "" /\ ~result.isFalse)
          => Extends(result.env, toplevel.bindings.env)
    /\ (/\ UnifyEnded
        /\ \/ BoundToOther(toplevel.goals[1], toplevel.goals[2], toplevel.bindings.env)
           \/ BoundToOther(toplevel.goals[2], toplevel.goals[1], toplevel.bindings.env))
          => result = False /\ error = ""
    /\ \A j \in Activations :
          ~trail[j].bindings.isFalse =>
              Extends(trail[j].bindings.env, trail[j].given.env)
    /\ (Running /\ ret # None /\ ~ret.isFalse) =>
          \A k \in Waiting :
              ~stack[k].bindings.isFalse /\ Extends(ret.env, stack[k].bindings.env)
    /\ (Proving /\ pc = "done" /\ error = "" /\ ~result.isFalse /\ ~toplevel.bindings.isFalse)
          => Extends(result.env, toplevel.bindings.env)

\* A dictionary is being returned through two waiting calls of prove that
\* were given different dictionaries, one of them not empty, and it binds
\* more than either.
C28_Witness ==
    /\ Running /\ ret # None /\ ~ret.isFalse
    /\ \E k, l \in Waiting :
          /\ k < l
          /\ stack[k].fn = "prove" /\ stack[l].fn = "prove"
          /\ stack[l].bindings.env # EmptyBindings
          /\ stack[k].bindings # stack[l].bindings
          /\ ret.env # stack[l].bindings.env

----------------------------------------------------------------------------
RECURSIVE VarsReached(_, _)
\* The variable names reached from the names S through bindings of a
\* variable to a variable.
VarsReached(S, e) ==
    LET T == S \cup {e[v].var : v \in {u \in S \cap DOMAIN e : IsVar(e[u])}}
    IN  IF T = S THEN S ELSE VarsReached(T, e)

\* Some variable is bound to itself, or to a variable from which bindings
\* of variables to variables lead back to it.
VarCycle(e) ==
    \E v \in DOMAIN e : IsVar(e[v]) /\ v \in VarsReached({e[v].var}, e)

\* C29: no dictionary reached from the empty one by calls of unify, each
\* given what the one before returned, binds a variable to itself or has a
\* chain of variable-to-variable bindings that leads from a variable back
\* to it.
C29_NoVarCycle ==
    origin = EmptyBindings =>
        /\ ~VarCycle(cur)
        /\ Unified => ~VarCycle(out.unified.env)

\* unify(v, w, e) for an unbound variable v and a variable w that e binds
\* to v: binding v to w would close a cycle, and the call returned e as it
\* was.
C29_Witness ==
    /\ origin = EmptyBindings /\ Unified /\ calls = 2
    /\ IsVar(argx) /\ IsVar(argy)
    /\ argx.var \notin DOMAIN before
    /\ argy.var \in DOMAIN before /\ before[argy.var] = argx
    /\ out.unified.env = before

----------------------------------------------------------------------------
\* Every entry of the database is a list of clauses, and every clause in it
\* is a fact.
FactsOnly(d) ==
    /\ \A k \in DOMAIN d : d[k].proc = ""
    /\ \A c \in StoredClauses(d) : c.body = <<>>

\* A call prove_all(goals, {}, db) on a database of facts has ended, by
\* returning or by an exception.
FactsAsked ==
    /\ pc = "done"
    /\ toplevel.fn = "prove_all"
    /\ toplevel.bindings = Bindings(EmptyBindings)
    /\ FactsOnly(db)

\* C30 (as stated): on a database that holds only facts and no function,
\* prove_all(goals, {}, db) returns a dictionary or False: it does not
\* recurse until the recursion limit.
C30_FactsTerminateAsStated == FactsAsked => error = ""

\* C30 (amended): it does so when the arguments of the facts and of the
\* goals are atoms and variables.
C30_FactsTerminate == (FactsAsked /\ Datalog(db, toplevel.goals)) => error = ""

\* Two goals were proved from three facts after the first fact for the
\* first goal had led to a failure of the second goal.
C30_Witness ==
    /\ FactsAsked /\ Datalog(db, toplevel.goals)
    /\ error = "" /\ ~result.isFalse
    /\ Len(toplevel.goals) = 2
    /\ Stored(db, DOMAIN db) = 3
    /\ \E i, j \in Activations :
          /\ i < j
          /\ trail[i].depth = 1 /\ trail[i].idx = 1 /\ trail[i].outcome = "subgoals"
          /\ trail[j].depth = 1 /\ trail[j].idx = 2 /\ trail[j].outcome = "subgoals"

====
